---- MODULE Spec2Model ----
(***************************************************************************)
(* Model of Starter_Code/static/js/logic.js: the earthquake map script.    *)
(*                                                                         *)
(*   getMarkerSize, getColorByDepth   the two pure derivation functions    *)
(*   fetchData                        the two chained d3.json requests     *)
(*   createMap                        the forEach transform, the layer     *)
(*                                    set-up, the layer control, the legend*)
(*                                                                         *)
(* Depths are real numbers in the program.  Here a depth is an integer     *)
(* count of 1/DepthScale km, so that depths strictly between two whole     *)
(* kilometres exist; Km(k) is the source literal k in that unit.           *)
(* Magnitudes are integers.                                                *)
(***************************************************************************)
EXTENDS Integers, Sequences, FiniteSets, TLC

\* ---------------------------------------------------------------- bounds

\* Depth resolution: a depth is a multiple of 1/DepthScale km.
DepthScale == 2
\* Depths range over -MaxNegDepth km .. MaxDepth km.
MaxNegDepth == 20
MaxDepth == 110
\* Magnitudes range over -MaxNegMag .. MaxMag.
MaxNegMag == 3
MaxMag == 10
\* The earthquake feed holds at most MaxFeatures features.
MaxFeatures == 3

Km(k) == k * DepthScale

DepthDomain == (0 - Km(MaxNegDepth)) .. Km(MaxDepth)
MagDomain == (0 - MaxNegMag) .. MaxMag

\* ------------------------------------------------- the pure derivations

\* A bug the size function could have: 0 taken as a positive magnitude.
getMarkerSizeZeroPositive(magnitude) ==
  IF magnitude >= 0 THEN magnitude ^ 7 ELSE 1

\* logic.js:3    magnitude > 0 ? magnitude ** 7 : 1
getMarkerSize(magnitude) ==
  IF magnitude > 0 THEN magnitude ^ 7 ELSE 1

\* A bug the colour function could have: exclusive upper bounds.
getColorByDepthExclusive(depth) ==
  IF depth < Km(10) THEN "#98EE00"
  ELSE IF depth < Km(30) THEN "#D4EE00"
  ELSE IF depth < Km(50) THEN "#EECC00"
  ELSE IF depth < Km(70) THEN "#EE9C00"
  ELSE IF depth < Km(90) THEN "#EA822C"
  ELSE "#EA2C2C"

\* A bug the colour function could have: the first bucket bounded below by
\* 0, so that negative depths fall through to the last return.
getColorByDepthNegativeLast(depth) ==
  IF depth >= 0 /\ depth <= Km(10) THEN "#98EE00"
  ELSE IF depth >= 0 /\ depth <= Km(30) THEN "#D4EE00"
  ELSE IF depth >= 0 /\ depth <= Km(50) THEN "#EECC00"
  ELSE IF depth >= 0 /\ depth <= Km(70) THEN "#EE9C00"
  ELSE IF depth >= 0 /\ depth <= Km(90) THEN "#EA822C"
  ELSE "#EA2C2C"

\* logic.js:6-13    a chain of `if (depth <= t) return c;`, first match wins
getColorByDepth(depth) ==
  IF depth <= Km(10) THEN "#98EE00"
  ELSE IF depth <= Km(30) THEN "#D4EE00"
  ELSE IF depth <= Km(50) THEN "#EECC00"
  ELSE IF depth <= Km(70) THEN "#EE9C00"
  ELSE IF depth <= Km(90) THEN "#EA822C"
  ELSE "#EA2C2C"

\* A bug the legend could have: the last two colours exchanged.
depthRangeSwapped ==
  << [color |-> "#98EE00", range |-> "-10 to 10"],
     [color |-> "#D4EE00", range |-> "10 to 30"],
     [color |-> "#EECC00", range |-> "30 to 50"],
     [color |-> "#EE9C00", range |-> "50 to 70"],
     [color |-> "#EA2C2C", range |-> "70 to 90"],
     [color |-> "#EA822C", range |-> "90+"] >>

\* logic.js:99-106    the legend's fixed list
depthRange ==
  << [color |-> "#98EE00", range |-> "-10 to 10"],
     [color |-> "#D4EE00", range |-> "10 to 30"],
     [color |-> "#EECC00", range |-> "30 to 50"],
     [color |-> "#EE9C00", range |-> "50 to 70"],
     [color |-> "#EA822C", range |-> "70 to 90"],
     [color |-> "#EA2C2C", range |-> "90+"] >>

\* logic.js:108-111    legendInfo: the heading, then per entry, in list
\* order, <i style='background: ${color}'></i>${range}<br/>.  The markup is
\* kept as its structure: the swatch's background and the text after it.
RenderLegend(entries) ==
  [ heading |-> "<h4>Depth Legend</h4>",
    items |-> [ i \in 1 .. Len(entries) |->
                [ background |-> entries[i].color, text |-> entries[i].range ] ] ]

\* ------------------------------------------------------- the input data

\* A value a feature's geometry field can hold: absent (undefined), null
\* (GeoJSON allows "geometry": null), or a Point.
Undefined == [type |-> "undefined"]
Null == [type |-> "null"]

\* logic.js:38    if (geometry): undefined and null are falsy, an object is not
Truthy(v) == v.type \notin {"undefined", "null"}

Lons == {-122, 38}
Lats == {38}
Depths == {Km(70), Km(70) + 1}

\* The properties of two events: a magnitude and the feed's title for it.
Properties ==
  { [mag |-> 5, title |-> "M 5 - Bay Area"],
    [mag |-> 0, title |-> "M 0 - Fiji"] }

Points ==
  { [type |-> "Point", coordinates |-> <<lon, lat, depth>>] :
      lon \in Lons, lat \in Lats, depth \in Depths }

\* spec.md 3, EarthquakeFeature: geometry (possibly absent) and properties.
\* A feature without geometry has one set of properties here: the script
\* reads no property of such a feature.
Features ==
  { [geometry |-> g, properties |-> p] : g \in Points, p \in Properties }
    \cup { [geometry |-> g, properties |-> [mag |-> 5, title |-> "M 5 - Bay Area"]] :
             g \in {Undefined, Null} }

SeqsUpTo(S, n) == UNION { [1 .. k -> S] : k \in 0 .. n }

\* The feeds' documents: what d3.json resolves with.
EarthquakeResponses == { [features |-> fs] : fs \in SeqsUpTo(Features, MaxFeatures) }
TectonicResponses == { [type |-> "FeatureCollection", name |-> "PB2002_boundaries"] }

NoResponse == [type |-> "undefined"]
NoLegend == [heading |-> "", items |-> <<>>]

\* ------------------------------------------------------------- the state

VARIABLES
  \* fetchData: each request is "none" (not issued), "pending", "resolved"
  \* or "rejected"; the number of times each URL was requested; the
  \* documents the requests resolved with
  eqReq, tecReq, eqSent, tecSent, earthquakeResponse, tectonicResponse,
  \* createMap: "idle" (not called), "forEach" (in the loop), "threw" (a
  \* TypeError ended it), "assembled" (the view is built); the loop's
  \* position; the feature list it was called with; the three collections
  mapPc, idx, earthquakeData, markerCluster, heatPoints, circleMarkers,
  \* the view: the layers on the map, the legend's content (NoLegend before
  \* the legend is added)
  mapLayers, legendInfo,
  \* the pure functions' calls: argument and returned value
  argDepth, retColor, argMag, retSize, called

fetchVars == <<eqReq, tecReq, eqSent, tecSent, earthquakeResponse, tectonicResponse>>
loopVars == <<mapPc, idx, earthquakeData, markerCluster, heatPoints, circleMarkers>>
viewVars == <<mapLayers, legendInfo>>
pureVars == <<argDepth, retColor, argMag, retSize, called>>
vars == <<fetchVars, loopVars, viewVars, pureVars>>

\* The page as loaded, before line 133 runs.
InitPage ==
  /\ eqReq = "none" /\ tecReq = "none"
  /\ eqSent = 0 /\ tecSent = 0
  /\ earthquakeResponse = NoResponse /\ tectonicResponse = NoResponse
  /\ mapPc = "idle" /\ idx = 0 /\ earthquakeData = <<>>
  /\ markerCluster = <<>> /\ heatPoints = <<>> /\ circleMarkers = <<>>
  /\ mapLayers = {} /\ legendInfo = NoLegend

NoCalls ==
  /\ retColor = "" /\ retSize = 0 /\ called = {}

Init ==
  /\ InitPage
  /\ argDepth = 0 /\ argMag = 0 /\ NoCalls

\* The pure functions and the legend, each applied to any argument.
InitPure ==
  /\ InitPage
  /\ argDepth \in DepthDomain /\ argMag \in MagDomain /\ NoCalls

\* --------------------------------------------- the pure functions, applied

CallGetColorByDepth ==
  /\ "getColorByDepth" \notin called
  /\ retColor' = getColorByDepth(argDepth)
  /\ called' = called \cup {"getColorByDepth"}
  /\ UNCHANGED <<fetchVars, loopVars, viewVars, argDepth, argMag, retSize>>

CallGetMarkerSize ==
  /\ "getMarkerSize" \notin called
  /\ retSize' = getMarkerSize(argMag)
  /\ called' = called \cup {"getMarkerSize"}
  /\ UNCHANGED <<fetchVars, loopVars, viewVars, argDepth, argMag, retColor>>

\* logic.js:97-115    legend.onAdd
LegendOnAdd ==
  /\ legendInfo = NoLegend
  /\ legendInfo' = RenderLegend(depthRange)
  /\ UNCHANGED <<fetchVars, loopVars, mapLayers, pureVars>>

NextPure == CallGetColorByDepth \/ CallGetMarkerSize \/ LegendOnAdd

SpecPure == InitPure /\ [][NextPure]_vars

\* ------------------------------------------------------------ fetchData

\* What fetchData would be with the two requests issued side by side.
FetchDataParallel ==
  /\ eqReq = "none"
  /\ eqReq' = "pending" /\ eqSent' = eqSent + 1
  /\ tecReq' = "pending" /\ tecSent' = tecSent + 1
  /\ UNCHANGED <<earthquakeResponse, tectonicResponse, loopVars, viewVars, pureVars>>

\* logic.js:120-124, 133    fetchData(): d3.json(earthquakeUrl) is issued
FetchData ==
  /\ eqReq = "none"
  /\ eqReq' = "pending" /\ eqSent' = eqSent + 1
  /\ UNCHANGED <<tecReq, tecSent, earthquakeResponse, tectonicResponse,
                 loopVars, viewVars, pureVars>>

\* The earthquake request's promise is fulfilled with the parsed document.
EarthquakeResolves ==
  /\ eqReq = "pending"
  /\ \E response \in EarthquakeResponses : earthquakeResponse' = response
  /\ eqReq' = "resolved"
  /\ UNCHANGED <<tecReq, eqSent, tecSent, tectonicResponse, loopVars, viewVars, pureVars>>

\* What a failed request would do if the script retried it.
EarthquakeRejectsRetry ==
  /\ eqReq = "pending"
  /\ eqSent < 2
  /\ eqSent' = eqSent + 1
  /\ UNCHANGED <<eqReq, tecReq, tecSent, earthquakeResponse, tectonicResponse,
                 loopVars, viewVars, pureVars>>

\* The earthquake request's promise is rejected (network failure, a body
\* that does not parse).  logic.js:124 gives .then no rejection handler.
EarthquakeRejects ==
  /\ eqReq = "pending"
  /\ eqReq' = "rejected"
  /\ UNCHANGED <<tecReq, eqSent, tecSent, earthquakeResponse, tectonicResponse,
                 loopVars, viewVars, pureVars>>

\* logic.js:124-125    the first .then callback: d3.json(tectonicUrl) is issued
EarthquakeThen ==
  /\ eqReq = "resolved" /\ tecReq = "none"
  /\ tecReq' = "pending" /\ tecSent' = tecSent + 1
  /\ UNCHANGED <<eqReq, eqSent, earthquakeResponse, tectonicResponse,
                 loopVars, viewVars, pureVars>>

TectonicResolves ==
  /\ tecReq = "pending"
  /\ \E response \in TectonicResponses : tectonicResponse' = response
  /\ tecReq' = "resolved"
  /\ UNCHANGED <<eqReq, eqSent, tecSent, earthquakeResponse, loopVars, viewVars, pureVars>>

\* logic.js:125 gives the inner .then no rejection handler either.
TectonicRejects ==
  /\ tecReq = "pending"
  /\ tecReq' = "rejected"
  /\ UNCHANGED <<eqReq, eqSent, tecSent, earthquakeResponse, tectonicResponse,
                 loopVars, viewVars, pureVars>>

\* logic.js:125-127, 31-33    the inner .then callback: earthquakeData is
\* the response's features, createMap is called and sets up the collections
TectonicThen ==
  /\ tecReq = "resolved" /\ mapPc = "idle"
  /\ earthquakeData' = earthquakeResponse.features
  /\ mapPc' = "forEach" /\ idx' = 0
  /\ markerCluster' = <<>> /\ heatPoints' = <<>> /\ circleMarkers' = <<>>
  /\ UNCHANGED <<fetchVars, viewVars, pureVars>>

\* ------------------------------------------------ createMap: the transform

\* A bug line 39 could have: the coordinates kept in the feed's order.
LatLngUnswapped(geometry) == <<geometry.coordinates[1], geometry.coordinates[2]>>

\* logic.js:39    [geometry.coordinates[1], geometry.coordinates[0]]
\* (JavaScript counts from 0, TLA+ from 1)
LatLng(geometry) == <<geometry.coordinates[2], geometry.coordinates[1]>>

\* logic.js:44    L.marker(coordinates).bindPopup(`<h1>${properties.title}</h1>`)
Marker(item) ==
  [ latlng |-> LatLng(item.geometry),
    popup |-> "<h1>" \o item.properties.title \o "</h1>" ]

\* A bug lines 51-56 could have: the magnitude itself as the radius.
CircleRadiusIsMagnitude(item) ==
  [ latlng |-> LatLng(item.geometry),
    color |-> getColorByDepth(item.geometry.coordinates[3]),
    fillColor |-> getColorByDepth(item.geometry.coordinates[3]),
    radius |-> item.properties.mag,
    popup |-> "<h1>" \o item.properties.title \o "</h1>" ]

\* logic.js:40-41, 51-56    L.circle(coordinates, {color, fillColor, radius})
\* .bindPopup(...), with depth = geometry.coordinates[2], magnitude = properties.mag
Circle(item) ==
  [ latlng |-> LatLng(item.geometry),
    color |-> getColorByDepth(item.geometry.coordinates[3]),
    fillColor |-> getColorByDepth(item.geometry.coordinates[3]),
    radius |-> getMarkerSize(item.properties.mag),
    popup |-> "<h1>" \o item.properties.title \o "</h1>" ]

\* logic.js:39-57    the body under the guard.  Reading .coordinates of an
\* undefined or null geometry raises a TypeError, which ends createMap.
ForEachBody(item) ==
  IF ~Truthy(item.geometry)
  THEN /\ mapPc' = "threw"
       /\ UNCHANGED <<markerCluster, heatPoints, circleMarkers>>
  ELSE /\ mapPc' = mapPc
       /\ markerCluster' = Append(markerCluster, Marker(item))
       /\ heatPoints' = Append(heatPoints, LatLng(item.geometry))
       /\ circleMarkers' = Append(circleMarkers, Circle(item))

\* A bug the callback could have: no `if (geometry)` around the body.
ForEachCallbackUnguarded(item) == ForEachBody(item)

\* logic.js:36-59    the callback of earthquakeData.forEach
ForEachCallback(item) ==
  IF Truthy(item.geometry)
  THEN ForEachBody(item)
  ELSE UNCHANGED <<mapPc, markerCluster, heatPoints, circleMarkers>>

\* One iteration of the forEach of line 36.
ForEachStep ==
  /\ mapPc = "forEach" /\ idx < Len(earthquakeData)
  /\ ForEachCallback(earthquakeData[idx + 1])
  /\ idx' = idx + 1
  /\ UNCHANGED <<earthquakeData, fetchVars, viewVars, pureVars>>

\* ----------------------------------------------- createMap: the assembly

\* logic.js:73-76    the control's base layers, by label
baseLayers == ("Street View" :> "streetLayer") @@ ("Topography" :> "topoLayer")

\* logic.js:78-83    the control's overlays, by label
overlayLayers ==
  ("Earthquake Markers" :> "markerCluster") @@ ("Heatmap" :> "heatLayer")
    @@ ("Circles" :> "circles") @@ ("Tectonic Plates" :> "geoLayer")

Range(f) == { f[x] : x \in DOMAIN f }

\* A bug line 89 could have: both tile layers put on the map at the start.
InitialLayersBothBases == {"streetLayer", "topoLayer", "markerCluster", "geoLayer"}

\* logic.js:89    layers: [streetLayer, markerCluster, geoLayer]
InitialLayers == {"streetLayer", "markerCluster", "geoLayer"}

\* logic.js:61-116    after the loop: the heat, plate and circle layers are
\* built, the map is created with its default layers, the control and the
\* legend are added (legend.addTo calls legend.onAdd)
CreateMapAssemble ==
  /\ mapPc = "forEach" /\ idx = Len(earthquakeData)
  /\ mapPc' = "assembled"
  /\ mapLayers' = InitialLayers
  /\ legendInfo' = RenderLegend(depthRange)
  /\ UNCHANGED <<idx, earthquakeData, markerCluster, heatPoints, circleMarkers,
                 fetchVars, pureVars>>

\* The layer control of line 93 is the mapping library's.  Its inputs are
\* one radio button per base layer (one group) and one checkbox per
\* overlay, each checked when its layer is on the map; a click on an input
\* removes the unchecked layers that are on the map and adds the checked
\* ones that are not.
OnInputClick(checked) ==
  (mapLayers \ ((Range(baseLayers) \cup Range(overlayLayers)) \ checked)) \cup checked

\* The user picks a base layer: its radio button becomes the checked one.
ClickBase(label) ==
  /\ mapPc = "assembled"
  /\ mapLayers' = OnInputClick((mapLayers \cap Range(overlayLayers)) \cup {baseLayers[label]})
  /\ UNCHANGED <<legendInfo, loopVars, fetchVars, pureVars>>

\* The user clicks an overlay's checkbox: it alone changes.
ClickOverlay(label) ==
  /\ mapPc = "assembled"
  /\ LET layer == overlayLayers[label]
         now == mapLayers \cap (Range(baseLayers) \cup Range(overlayLayers))
     IN mapLayers' = OnInputClick(IF layer \in now THEN now \ {layer} ELSE now \cup {layer})
  /\ UNCHANGED <<legendInfo, loopVars, fetchVars, pureVars>>

\* ------------------------------------------------------ the specifications

Next ==
  \/ FetchData
  \/ EarthquakeResolves
  \/ EarthquakeRejects
  \/ EarthquakeThen
  \/ TectonicResolves
  \/ TectonicRejects
  \/ TectonicThen
  \/ ForEachStep
  \/ CreateMapAssemble
  \/ \E label \in DOMAIN baseLayers : ClickBase(label)
  \/ \E label \in DOMAIN overlayLayers : ClickOverlay(label)

Spec == Init /\ [][Next]_vars

\* ------------------------------------------------------------- the claims

\* C1: for every depth d, getColorByDepth(d) is the colour of the one
\* bucket d lies in: d <= 10 green, 10 < d <= 30, 30 < d <= 50,
\* 50 < d <= 70, 70 < d <= 90, d > 90 red; a threshold belongs to the
\* bucket below it.
C1_ColorByBucket ==
  "getColorByDepth" \in called =>
    /\ (argDepth <= Km(10)) = (retColor = "#98EE00")
    /\ (Km(10) < argDepth /\ argDepth <= Km(30)) = (retColor = "#D4EE00")
    /\ (Km(30) < argDepth /\ argDepth <= Km(50)) = (retColor = "#EECC00")
    /\ (Km(50) < argDepth /\ argDepth <= Km(70)) = (retColor = "#EE9C00")
    /\ (Km(70) < argDepth /\ argDepth <= Km(90)) = (retColor = "#EA822C")
    /\ (Km(90) < argDepth) = (retColor = "#EA2C2C")
    /\ (argDepth \in {Km(10), Km(30), Km(50), Km(70), Km(90)} =>
          retColor = getColorByDepth(argDepth - 1))

\* getColorByDepth has returned for the threshold 90: orange-red, not red.
C1_Boundary90 ==
  /\ "getColorByDepth" \in called
  /\ argDepth = Km(90)
  /\ retColor = "#EA822C"

\* C2 as stated: every negative depth falls to the last return, red.
C2_NegativeIsRed ==
  ("getColorByDepth" \in called /\ argDepth < 0) => retColor = "#EA2C2C"

\* C2, amended: every negative depth matches the first test (depth <= 10)
\* and is green, #98EE00.
C2_NegativeIsGreen ==
  ("getColorByDepth" \in called /\ argDepth < 0) => retColor = "#98EE00"

\* getColorByDepth has returned for a negative depth.
C2_NegativeCalled ==
  /\ "getColorByDepth" \in called
  /\ argDepth < 0
  /\ retColor # ""

Pow7(m) == m * m * m * m * m * m * m

\* C3: getMarkerSize(m) is m^7 for m > 0 and 1 for m <= 0; it is not
\* clamped, is at least 1 and is strictly increasing over the integers
\* m >= 1.
C3_SeventhPower ==
  "getMarkerSize" \in called =>
    /\ (argMag > 0 => retSize = Pow7(argMag))
    /\ (argMag <= 0 => retSize = 1)
    /\ retSize >= 1
    /\ \A n \in 1 .. (argMag - 1) : getMarkerSize(n) < retSize

\* getMarkerSize has returned for magnitude 6: 279,936.
C3_Magnitude6 ==
  /\ "getMarkerSize" \in called
  /\ argMag = 6
  /\ retSize = 279936

\* A legend label read as a set of depths, in the way that suits the
\* claim best: "a to b" is a < d <= b, the first label includes its lower
\* end, "90+" is d > 90.
LabelHolds(text, d) ==
  CASE text = "-10 to 10" -> (0 - Km(10)) <= d /\ d <= Km(10)
    [] text = "10 to 30" -> Km(10) < d /\ d <= Km(30)
    [] text = "30 to 50" -> Km(30) < d /\ d <= Km(50)
    [] text = "50 to 70" -> Km(50) < d /\ d <= Km(70)
    [] text = "70 to 90" -> Km(70) < d /\ d <= Km(90)
    [] text = "90+" -> Km(90) < d
    [] OTHER -> FALSE

LegendShown == legendInfo # NoLegend /\ "getColorByDepth" \in called

\* The legend has six entries whose colours are, in order, the colours of
\* the six buckets; each is returned for some depth and every returned
\* colour is one of them.
LegendColors ==
  /\ Len(legendInfo.items) = 6
  /\ [i \in 1 .. 6 |-> legendInfo.items[i].background]
       = << getColorByDepth(Km(10)), getColorByDepth(Km(30)), getColorByDepth(Km(50)),
            getColorByDepth(Km(70)), getColorByDepth(Km(90)), getColorByDepth(Km(90) + 1) >>
  /\ Cardinality({ legendInfo.items[i].background : i \in 1 .. 6 }) = 6
  /\ \A i \in 1 .. 6 : \E d \in DepthDomain :
       getColorByDepth(d) = legendInfo.items[i].background
  /\ \E i \in 1 .. 6 : retColor = legendInfo.items[i].background

\* C10 as stated: the legend's colours are the six bucket colours in
\* order, and each label's range is the set of depths given its colour.
C10_LabelsAreBuckets ==
  LegendShown =>
    /\ LegendColors
    /\ \A i \in 1 .. 6 :
         LabelHolds(legendInfo.items[i].text, argDepth)
           = (retColor = legendInfo.items[i].background)

\* C10, amended: the legend's colours are the six bucket colours in order;
\* every depth in a label's range has that label's colour; for the labels
\* after the first the range is all of the colour's depths, while the
\* first colour, #98EE00, is given to every depth <= 10, those below the
\* label's -10 included.
C10_LabelsWithinBuckets ==
  LegendShown =>
    /\ LegendColors
    /\ \A i \in 1 .. 6 :
         LabelHolds(legendInfo.items[i].text, argDepth)
           => retColor = legendInfo.items[i].background
    /\ \A i \in 2 .. 6 :
         retColor = legendInfo.items[i].background
           => LabelHolds(legendInfo.items[i].text, argDepth)
    /\ (retColor = legendInfo.items[1].background) = (argDepth <= Km(10))

\* The legend is shown and getColorByDepth has returned green for a depth
\* below the first label's -10.
C10_BelowFirstLabel ==
  /\ LegendShown
  /\ argDepth < 0 - Km(10)
  /\ retColor = "#98EE00"
  /\ legendInfo.items[1] = [background |-> "#98EE00", text |-> "-10 to 10"]

\* A feature that has a geometry: an object, neither absent nor null.
HasGeometry(f) == f.geometry.type = "Point"

\* The features with geometry among the first n of the input, in order.
GeometryPrefix(n) == SelectSeq(SubSeq(earthquakeData, 1, n), HasGeometry)

InCreateMap == mapPc \in {"forEach", "assembled"}

\* C4: after every iteration the cluster group, the heat points and the
\* circles each hold as many entries as there are features with geometry
\* among those processed, so K of each at the end; a feature without
\* geometry adds nothing and raises no error; an empty list leaves all
\* three empty.
C4_OnePerGeometry ==
  /\ mapPc # "threw"
  /\ InCreateMap =>
       LET K == Cardinality({ i \in 1 .. idx : HasGeometry(earthquakeData[i]) })
       IN /\ Len(markerCluster) = K
          /\ Len(heatPoints) = K
          /\ Len(circleMarkers) = K
  /\ mapPc = "assembled" => idx = Len(earthquakeData)
  /\ (InCreateMap /\ earthquakeData = <<>>) =>
       markerCluster = <<>> /\ heatPoints = <<>> /\ circleMarkers = <<>>

\* The loop has ended on a list of MaxFeatures features, some with and
\* some without geometry.
C4_MixedListDone ==
  /\ mapPc = "assembled"
  /\ Len(earthquakeData) = MaxFeatures
  /\ \E i \in 1 .. MaxFeatures : HasGeometry(earthquakeData[i])
  /\ \E i \in 1 .. MaxFeatures : earthquakeData[i].geometry = Undefined
  /\ \E i \in 1 .. MaxFeatures : earthquakeData[i].geometry = Null
  /\ Len(heatPoints) < MaxFeatures

\* C5: the tectonic request is issued only once the earthquake request has
\* resolved, createMap runs only once both have resolved, and the two
\* requests are never pending together.
C5_Sequential ==
  /\ tecReq # "none" => eqReq = "resolved"
  /\ tecSent > 0 => eqReq = "resolved"
  /\ mapPc # "idle" => (eqReq = "resolved" /\ tecReq = "resolved")
  /\ ~(eqReq = "pending" /\ tecReq = "pending")

\* The tectonic request is in flight.
C5_SecondInFlight ==
  /\ tecReq = "pending"
  /\ eqReq = "resolved"
  /\ mapPc = "idle"

C6_NeverRendered ==
  /\ (eqReq # "resolved" \/ tecReq # "resolved") =>
       (mapPc = "idle" /\ mapLayers = {} /\ legendInfo = NoLegend)
  /\ eqSent <= 1 /\ tecSent <= 1
  /\ eqReq = "rejected" => (tecReq = "none" /\ tecSent = 0)

C6_FailureStays ==
  /\ eqReq = "rejected" => eqReq' = "rejected"
  /\ tecReq = "rejected" => tecReq' = "rejected"
  /\ eqSent # 0 => eqSent' = eqSent
  /\ tecSent # 0 => tecSent' = tecSent

\* C6: while either request has failed or not completed createMap has not
\* run and nothing is rendered; a failed request stays failed; each URL is
\* requested at most once; after a failed first request the second is
\* never issued.
C6_NoRenderNoRetry == []C6_NeverRendered /\ [][C6_FailureStays]_vars

\* A request has failed: the second, after the first resolved.
C6_SecondFailed ==
  /\ tecReq = "rejected"
  /\ eqReq = "resolved"
  /\ eqSent = 1 /\ tecSent = 1

\* C7: the i-th heat point and the i-th circle come from the i-th input
\* feature that has geometry, and each lies at [latitude, longitude]: the
\* feature's [lon, lat, depth] with the first two exchanged.
C7_InputOrderLatLon ==
  InCreateMap =>
    LET g == GeometryPrefix(idx)
    IN /\ Len(heatPoints) = Len(g)
       /\ Len(circleMarkers) = Len(g)
       /\ \A i \in 1 .. Len(g) :
            LET lon == g[i].geometry.coordinates[1]
                lat == g[i].geometry.coordinates[2]
            IN /\ heatPoints[i] = <<lat, lon>>
               /\ circleMarkers[i].latlng = <<lat, lon>>

\* Two features with different positions, a feature without geometry
\* between them, have been transformed.
C7_TwoAroundAGap ==
  /\ mapPc = "assembled"
  /\ Len(earthquakeData) = 3
  /\ ~HasGeometry(earthquakeData[2])
  /\ heatPoints = << <<38, -122>>, <<38, 38>> >>

\* C9: the circle of a feature with geometry has color and fillColor
\* getColorByDepth(coordinates[2]), radius getMarkerSize(properties.mag)
\* and the popup of the feature's marker, which carries properties.title;
\* depth 70 gives #EE9C00, a depth just above 70 gives #EA822C.
C9_CircleStyle ==
  InCreateMap =>
    LET g == GeometryPrefix(idx)
    IN \A i \in 1 .. Len(circleMarkers) :
         LET depth == g[i].geometry.coordinates[3]
             circle == circleMarkers[i]
         IN /\ circle.color = getColorByDepth(depth)
            /\ circle.fillColor = circle.color
            /\ circle.radius = getMarkerSize(g[i].properties.mag)
            /\ circle.popup = markerCluster[i].popup
            /\ circle.popup = "<h1>" \o g[i].properties.title \o "</h1>"
            /\ depth = Km(70) => circle.color = "#EE9C00"
            /\ (Km(70) < depth /\ depth <= Km(90)) => circle.color = "#EA822C"
            /\ g[i].properties.mag = 5 => circle.radius = 78125
            /\ g[i].properties.mag = 0 => circle.radius = 1

\* A circle for depth 70 and one for a depth just above 70 have been built.
C9_AtAndAbove70 ==
  /\ mapPc = "assembled"
  /\ Len(earthquakeData) = 2
  /\ HasGeometry(earthquakeData[1]) /\ HasGeometry(earthquakeData[2])
  /\ Len(circleMarkers) = 2
  /\ earthquakeData[1].geometry.coordinates[3] = Km(70)
  /\ earthquakeData[2].geometry.coordinates[3] = Km(70) + 1
  /\ circleMarkers[1].color = "#EE9C00"
  /\ circleMarkers[2].color = "#EA822C"
  /\ circleMarkers[1].radius = 78125
  /\ circleMarkers[2].popup = "<h1>M 0 - Fiji</h1>"

SymDiff(A, B) == (A \ B) \cup (B \ A)

C8_OneBase ==
  mapPc = "assembled" => Cardinality(mapLayers \cap {"streetLayer", "topoLayer"}) = 1

C8_Steps ==
  /\ (mapPc = "forEach" /\ mapPc' = "assembled") =>
       mapLayers' = {"streetLayer", "markerCluster", "geoLayer"}
  /\ \A label \in {"Earthquake Markers", "Heatmap", "Circles", "Tectonic Plates"} :
       ClickOverlay(label) => SymDiff(mapLayers, mapLayers') = {overlayLayers[label]}
  /\ \A label \in {"Street View", "Topography"} :
       ClickBase(label) =>
         /\ baseLayers[label] \in mapLayers'
         /\ SymDiff(mapLayers, mapLayers') \subseteq {"streetLayer", "topoLayer"}

\* C8: the view starts with Street View, Earthquake Markers and Tectonic
\* Plates shown and Heatmap and Circles hidden; after any layer-switcher
\* actions exactly one base layer is on the map; toggling an overlay
\* changes that overlay's visibility and nothing else, and picking a base
\* layer changes no overlay.
C8_LayerSwitcher == []C8_OneBase /\ [][C8_Steps]_vars

\* Every layer has been switched from its initial setting.
C8_AllSwitched ==
  /\ mapPc = "assembled"
  /\ mapLayers = {"topoLayer", "heatLayer", "circles"}

====
